---------------------------- MODULE Spec2Model ----------------------------
(***************************************************************************)
(* The toy-language translator of lab_2/main.py: tokenize (a regular       *)
(* expression scan), Parser (recursive descent over a token list with a    *)
(* cursor) and ToPython (a visitor that builds the target tree).           *)
(*                                                                         *)
(* Source text is a sequence of one-character strings, a token is a record *)
(* [type, value] whose value is the matched characters, and the parser is  *)
(* a machine over an explicit call stack: one frame per active parse_*     *)
(* call, one step per cur()/eat() of the code.                             *)
(***************************************************************************)
EXTENDS Integers, Sequences, FiniteSets, TLC

VARIABLES src, tokens, pos, stack, phase, err, result, py

vars == <<src, tokens, pos, stack, phase, err, result, py>>

(***************************************************************************)
(* Bounds of the checked inputs.                                           *)
(***************************************************************************)
MaxSrcLen == 4

MaxParamToks == 5

MaxOpToks == 4

MaxCallToks == 5

MaxStmtToks == 4

MaxIfToks == 4

MaxNest == 2

(***************************************************************************)
(* Characters.  \w of the token patterns is a letter, a digit or "_";      *)
(* \d is a digit; SKIP is a run of space, tab and newline.                 *)
(***************************************************************************)
Letters ==
    {"a", "b", "c", "d", "e", "f", "g", "h", "i", "j", "k", "l", "m", "n",
     "o", "p", "q", "r", "s", "t", "u", "v", "w", "x", "y", "z", "_",
     "A", "B", "C", "D", "E", "F", "G", "H", "I", "J", "K", "L", "M", "N",
     "O", "P", "Q", "R", "S", "T", "U", "V", "W", "X", "Y", "Z"}

Digits == {"0", "1", "2", "3", "4", "5", "6", "7", "8", "9"}

Blanks == {" ", "\t", "\n"}

IsWordChar(c) == c \in Letters \cup Digits

\* Is there a word character at index i of s (none outside the text).
WordAt(s, i) == i >= 1 /\ i <= Len(s) /\ IsWordChar(s[i])

\* \b between index i-1 and index i.
Boundary(s, i) == WordAt(s, i - 1) # WordAt(s, i)

\* The end (exclusive) of the longest run of characters of class C from i.
RECURSIVE RunEnd(_, _, _)
RunEnd(s, i, C) ==
    IF i <= Len(s) /\ s[i] \in C THEN RunEnd(s, i + 1, C) ELSE i

\* Does the literal text lit occur in s at index i.
LitAt(s, i, lit) ==
    /\ i + Len(lit) - 1 <= Len(s)
    /\ \A j \in 1..Len(lit) : s[i + j - 1] = lit[j]

(***************************************************************************)
(* TOKEN_SPEC, in the order of the alternation TOKEN_RE is built from.     *)
(* A pattern is a whole-word keyword, the identifier or number class, a    *)
(* literal, or the blank run.                                              *)
(***************************************************************************)
TOKEN_SPEC ==
    << [name |-> "FUNC",     pat |-> "kw",  lit |-> <<"f", "u", "n", "c">>],
       [name |-> "RETURN",   pat |-> "kw",  lit |-> <<"r", "e", "t", "u", "r", "n">>],
       [name |-> "IF",       pat |-> "kw",  lit |-> <<"i", "f">>],
       [name |-> "ELSE",     pat |-> "kw",  lit |-> <<"e", "l", "s", "e">>],
       [name |-> "FOR",      pat |-> "kw",  lit |-> <<"f", "o", "r">>],
       [name |-> "INT",      pat |-> "kw",  lit |-> <<"i", "n", "t">>],
       [name |-> "IDENT",    pat |-> "id",  lit |-> <<>>],
       [name |-> "NUMBER",   pat |-> "num", lit |-> <<>>],
       [name |-> "PLUS",     pat |-> "lit", lit |-> <<"+">>],
       [name |-> "MINUS",    pat |-> "lit", lit |-> <<"-">>],
       [name |-> "STAR",     pat |-> "lit", lit |-> <<"*">>],
       [name |-> "SLASH",    pat |-> "lit", lit |-> <<"/">>],
       [name |-> "EQ",       pat |-> "lit", lit |-> <<"=">>],
       [name |-> "COLON_EQ", pat |-> "lit", lit |-> <<":", "=">>],
       [name |-> "LPAREN",   pat |-> "lit", lit |-> <<"(">>],
       [name |-> "RPAREN",   pat |-> "lit", lit |-> <<")">>],
       [name |-> "LBRACE",   pat |-> "lit", lit |-> <<"{">>],
       [name |-> "RBRACE",   pat |-> "lit", lit |-> <<"}">>],
       [name |-> "COMMA",    pat |-> "lit", lit |-> <<",">>],
       [name |-> "SKIP",     pat |-> "ws",  lit |-> <<>>] >>

\* A literal pattern that matches on its first character alone and takes
\* one character.
LitEndFirstChar(s, i, lit) ==
    IF i <= Len(s) /\ s[i] = lit[1] THEN i + 1 ELSE 0

\* The end (exclusive) of the literal lit matched at index i, 0 for no match.
LitEnd(s, i, lit) == IF LitAt(s, i, lit) THEN i + Len(lit) ELSE 0

\* The end (exclusive) of pattern p matched at index i of s, 0 for no match.
PatEnd(s, i, p) ==
    CASE p.pat = "kw" ->
            IF /\ Boundary(s, i)
               /\ LitAt(s, i, p.lit)
               /\ Boundary(s, i + Len(p.lit))
            THEN i + Len(p.lit) ELSE 0
      [] p.pat = "id" ->
            IF i <= Len(s) /\ s[i] \in Letters
            THEN RunEnd(s, i + 1, Letters \cup Digits) ELSE 0
      [] p.pat = "num" ->
            IF i <= Len(s) /\ s[i] \in Digits THEN RunEnd(s, i, Digits) ELSE 0
      [] p.pat = "lit" -> LitEnd(s, i, p.lit)
      [] p.pat = "ws" ->
            IF i <= Len(s) /\ s[i] \in Blanks THEN RunEnd(s, i, Blanks) ELSE 0

\* TOKEN_RE anchored at index i: the first alternative, in table order,
\* that matches there; [lastgroup, start, end], or lastgroup "" for none.
MatchAt(s, i) ==
    LET hits == {k \in 1..Len(TOKEN_SPEC) : PatEnd(s, i, TOKEN_SPEC[k]) # 0}
    IN  IF hits = {}
        THEN [lastgroup |-> "", start |-> i, end |-> i]
        ELSE LET k == CHOOSE h \in hits : \A g \in hits : h <= g
             IN  [lastgroup |-> TOKEN_SPEC[k].name, start |-> i,
                  end |-> PatEnd(s, i, TOKEN_SPEC[k])]

\* TOKEN_RE.finditer(code): the matches from index i on, left to right; a
\* position at which nothing matches is passed over by the search.
RECURSIVE FindIter(_, _)
FindIter(s, i) ==
    IF i > Len(s) THEN <<>>
    ELSE LET m == MatchAt(s, i)
         IN  IF m.lastgroup = "" THEN FindIter(s, i + 1)
             ELSE <<m>> \o FindIter(s, m.end)

Token(typ, val) == [type |-> typ, value |-> val]

\* tokenize(code): a Token per match whose group is not SKIP.
RECURSIVE TokensOf(_, _)
TokensOf(s, ms) ==
    IF ms = <<>> THEN <<>>
    ELSE LET m == Head(ms)
         IN  (IF m.lastgroup # "SKIP"
              THEN <<Token(m.lastgroup, SubSeq(s, m.start, m.end - 1))>>
              ELSE <<>>) \o TokensOf(s, Tail(ms))

tokenize(code) == TokensOf(code, FindIter(code, 1))


(***************************************************************************)
(* The AST model.  Strings taken from tokens stay sequences of characters. *)
(* None is the empty option, Some(v) the present one.                      *)
(***************************************************************************)
None == <<>>

Some(v) == <<v>>

Function(name, params, body) ==
    [k |-> "Function", name |-> name, params |-> params, body |-> body]

Return(value) == [k |-> "Return", value |-> value]

Assign(name, value) == [k |-> "Assign", name |-> name, value |-> value]

If(cond, then, otherwise) ==
    [k |-> "If", cond |-> cond, then |-> then, otherwise |-> otherwise]

For(cond, body) == [k |-> "For", cond |-> cond, body |-> body]

Call(name, args) == [k |-> "Call", name |-> name, args |-> args]

BinaryOp(left, op, right) ==
    [k |-> "BinaryOp", left |-> left, op |-> op, right |-> right]

Var(name) == [k |-> "Var", name |-> name]

Num(value) == [k |-> "Num", value |-> value]

DigitValue(c) ==
    CASE c = "0" -> 0 [] c = "1" -> 1 [] c = "2" -> 2 [] c = "3" -> 3
      [] c = "4" -> 4 [] c = "5" -> 5 [] c = "6" -> 6 [] c = "7" -> 7
      [] c = "8" -> 8 [] c = "9" -> 9

\* int(tok.value) of a NUMBER token's digits.
RECURSIVE int(_)
int(ds) ==
    IF ds = <<>> THEN 0
    ELSE 10 * int(SubSeq(ds, 1, Len(ds) - 1)) + DigitValue(ds[Len(ds)])

(***************************************************************************)
(* Parser.  pos is the cursor (0-based); a frame is one active parse_*     *)
(* call: where it stands (pc), its locals, the value its callee returned   *)
(* (rv), and lpos, the cursor at the last test of its loop condition.      *)
(***************************************************************************)
NoTok == Token("", <<>>)

NoErr == [kind |-> "", expected |-> "", got |-> NoTok]

NewFrame(fn) ==
    [fn |-> fn, pc |-> "start", name |-> <<>>, list |-> <<>>, node |-> None,
     op |-> <<>>, blk |-> <<>>, rv |-> None, lpos |-> -1]

\* Parser(tokens): the token list and the cursor at 0.
ParserInit(toks) ==
    /\ tokens = toks
    /\ pos = 0

Top == stack[Len(stack)]

AtEnd == pos >= Len(tokens)

\* cur(): tokens[pos]; indexing past the end raises IndexError (see look).
cur == IF AtEnd THEN NoTok ELSE tokens[pos + 1]

\* What one step of a parse_* call does next.
Raise(kind, expected, got) ==
    [t |-> "raise", err |-> [kind |-> kind, expected |-> expected, got |-> got]]

Goto(f) == [t |-> "goto", pos |-> pos, frame |-> f]

Invoke(f, callee) == [t |-> "call", pos |-> pos, frame |-> f, callee |-> callee]

Yield(v) == [t |-> "return", pos |-> pos, value |-> v]

\* A read of cur() before going on with o.
look(o) == IF AtEnd THEN Raise("IndexError", "", NoTok) ELSE o

\* A cursor that a successful eat leaves where it was.
AdvanceStuck(p) == p

\* The cursor after one successful eat.
Advance(p) == p + 1

\* eat(typ), then o.
eat(typ, o) ==
    IF AtEnd THEN Raise("IndexError", "", NoTok)
    ELSE IF cur.type = typ THEN [o EXCEPT !.pos = Advance(pos)]
    ELSE Raise("SyntaxError", typ, cur)

\* The operands of the new BinaryOp taken in the wrong order.
ExprNodeSwapped(f) ==
    IF f.pc = "first" THEN f.rv ELSE BinaryOp(f.rv, f.op, f.node)

\* The node parse_expr has built when it tests its loop condition.
ExprNode(f) ==
    IF f.pc = "first" THEN f.rv ELSE BinaryOp(f.node, f.op, f.rv)

parse_expr(f) ==
    CASE f.pc = "start" -> Invoke([f EXCEPT !.pc = "first"], "parse_term")
      [] f.pc \in {"first", "right"} ->
            look(IF cur.type \in {"PLUS", "MINUS"}
                 THEN eat(cur.type,
                          Invoke([f EXCEPT !.pc = "right", !.node = ExprNode(f),
                                           !.op = cur.value, !.lpos = pos],
                                 "parse_term"))
                 ELSE Yield(ExprNode(f)))

parse_term(f) ==
    CASE f.pc = "start" ->
            look(CASE cur.type = "NUMBER" ->
                        eat("NUMBER", Yield(Num(int(cur.value))))
                   [] cur.type = "IDENT" ->
                        eat("IDENT", Goto([f EXCEPT !.pc = "ident",
                                                    !.name = cur.value]))
                   [] OTHER -> Raise("SyntaxError", "", cur))
      [] f.pc = "ident" ->
            look(IF cur.type = "LPAREN"
                 THEN eat("LPAREN", Goto([f EXCEPT !.pc = "args", !.list = <<>>]))
                 ELSE Yield(Var(f.name)))
      [] f.pc = "args" ->
            look(IF cur.type # "RPAREN"
                 THEN Invoke([f EXCEPT !.pc = "arg"], "parse_expr")
                 ELSE eat("RPAREN", Yield(Call(f.name, f.list))))
      [] f.pc = "arg" ->
            LET args == Append(f.list, f.rv)
            IN  look(IF cur.type = "COMMA"
                     THEN eat("COMMA",
                              Invoke([f EXCEPT !.list = args, !.lpos = pos],
                                     "parse_expr"))
                     ELSE eat("RPAREN", Yield(Call(f.name, args))))

parse_stmt(f) ==
    CASE f.pc = "start" ->
            look(CASE cur.type = "RETURN" ->
                        eat("RETURN",
                            Invoke([f EXCEPT !.pc = "return"], "parse_expr"))
                   [] cur.type = "IF" ->
                        eat("IF", Invoke([f EXCEPT !.pc = "if_cond"], "parse_expr"))
                   [] cur.type = "FOR" ->
                        eat("FOR",
                            Invoke([f EXCEPT !.pc = "for_cond"], "parse_expr"))
                   [] cur.type = "IDENT" ->
                        eat("IDENT", Goto([f EXCEPT !.pc = "assign_eq",
                                                    !.name = cur.value]))
                   [] OTHER -> Raise("SyntaxError", "", cur))
      [] f.pc = "return" -> Yield(Return(f.rv))
      [] f.pc = "if_cond" ->
            eat("LBRACE", Invoke([f EXCEPT !.pc = "if_then", !.node = f.rv],
                                 "parse_block"))
      [] f.pc = "if_then" ->
            eat("RBRACE", Goto([f EXCEPT !.pc = "if_else", !.blk = f.rv]))
      [] f.pc = "if_else" ->
            look(IF cur.type = "ELSE"
                 THEN eat("ELSE", Goto([f EXCEPT !.pc = "else_lbrace"]))
                 ELSE Yield(If(f.node, f.blk, None)))
      [] f.pc = "else_lbrace" ->
            eat("LBRACE", Invoke([f EXCEPT !.pc = "else_rbrace"], "parse_block"))
      [] f.pc = "else_rbrace" ->
            eat("RBRACE", Yield(If(f.node, f.blk, Some(f.rv))))
      [] f.pc = "for_cond" ->
            eat("LBRACE", Invoke([f EXCEPT !.pc = "for_body", !.node = f.rv],
                                 "parse_block"))
      [] f.pc = "for_body" -> eat("RBRACE", Yield(For(f.node, f.rv)))
      [] f.pc = "assign_eq" ->
            eat("EQ", Invoke([f EXCEPT !.pc = "assign"], "parse_expr"))
      [] f.pc = "assign" -> Yield(Assign(f.name, f.rv))

\* The statements parse_block has collected when it tests its loop condition.
BlockStmts(f) == IF f.pc = "start" THEN f.list ELSE Append(f.list, f.rv)

parse_block(f) ==
    look(IF cur.type # "RBRACE"
         THEN Invoke([f EXCEPT !.pc = "append", !.list = BlockStmts(f),
                               !.lpos = pos],
                     "parse_stmt")
         ELSE Yield(BlockStmts(f)))

parse_func(f) ==
    CASE f.pc = "start" -> eat("FUNC", Goto([f EXCEPT !.pc = "name"]))
      [] f.pc = "name" ->
            eat("IDENT", Goto([f EXCEPT !.pc = "lparen", !.name = cur.value]))
      [] f.pc = "lparen" ->
            eat("LPAREN", Goto([f EXCEPT !.pc = "params", !.list = <<>>]))
      [] f.pc = "params" ->
            look(IF cur.type # "RPAREN"
                 THEN eat("IDENT",
                          Goto([f EXCEPT !.pc = "param_type",
                                         !.list = Append(f.list, cur.value),
                                         !.lpos = pos]))
                 ELSE eat("RPAREN", Goto([f EXCEPT !.pc = "result_type"])))
      [] f.pc = "param_type" ->
            look(IF cur.type = "INT"
                 THEN eat("INT", Goto([f EXCEPT !.pc = "param_comma"]))
                 ELSE Goto([f EXCEPT !.pc = "param_comma"]))
      [] f.pc = "param_comma" ->
            look(IF cur.type = "COMMA"
                 THEN eat("COMMA", Goto([f EXCEPT !.pc = "params"]))
                 ELSE Goto([f EXCEPT !.pc = "params"]))
      [] f.pc = "result_type" ->
            look(IF cur.type = "INT"
                 THEN eat("INT", Goto([f EXCEPT !.pc = "lbrace"]))
                 ELSE Goto([f EXCEPT !.pc = "lbrace"]))
      [] f.pc = "lbrace" ->
            eat("LBRACE", Invoke([f EXCEPT !.pc = "rbrace"], "parse_block"))
      [] f.pc = "rbrace" ->
            eat("RBRACE", Yield(Function(f.name, f.list, f.rv)))

\* The effect of one step on the parser: an exception unwinds every call
\* (no AST is handed back), a return hands its value to the caller, and the
\* return of the outermost call is the parse result.
Apply(o) ==
    /\ CASE o.t = "raise" ->
              /\ phase' = "error"
              /\ err' = o.err
              /\ stack' = <<>>
              /\ UNCHANGED <<pos, result>>
         [] o.t = "goto" ->
              /\ pos' = o.pos
              /\ stack' = [stack EXCEPT ![Len(stack)] = o.frame]
              /\ UNCHANGED <<phase, err, result>>
         [] o.t = "call" ->
              /\ pos' = o.pos
              /\ stack' = Append([stack EXCEPT ![Len(stack)] = o.frame],
                                 NewFrame(o.callee))
              /\ UNCHANGED <<phase, err, result>>
         [] o.t = "return" ->
              /\ pos' = o.pos
              /\ IF Len(stack) = 1
                 THEN /\ stack' = <<>>
                      /\ result' = o.value
                      /\ phase' = "parsed"
                 ELSE /\ stack' = [SubSeq(stack, 1, Len(stack) - 1)
                                     EXCEPT ![Len(stack) - 1].rv = o.value]
                      /\ UNCHANGED <<phase, result>>
              /\ UNCHANGED err
    /\ UNCHANGED <<src, tokens, py>>

Running(fn) == phase = "parse" /\ stack # <<>> /\ Top.fn = fn

StepFunc == Running("parse_func") /\ Apply(parse_func(Top))

StepBlock == Running("parse_block") /\ Apply(parse_block(Top))

StepStmt == Running("parse_stmt") /\ Apply(parse_stmt(Top))

StepExpr == Running("parse_expr") /\ Apply(parse_expr(Top))

StepTerm == Running("parse_term") /\ Apply(parse_term(Top))

(***************************************************************************)
(* ToPython.  The target tree is made of Python ast nodes, kept as records *)
(* with the fields the constructors are given; an exception raised inside  *)
(* a visit is the value Raised(..), which every enclosing visit passes on. *)
(***************************************************************************)
Raised(kind, key) == [k |-> "Raise", kind |-> kind, key |-> key]

IsRaised(t) == t.k = "Raise"

\* The first exception among the visits of a list, in visiting order.
FirstRaised(ts) ==
    ts[CHOOSE i \in 1..Len(ts) :
          IsRaised(ts[i]) /\ \A j \in 1..(i - 1) : ~IsRaised(ts[j])]

AnyRaised(ts) == \E i \in 1..Len(ts) : IsRaised(ts[i])

Name(id, ctx) == [k |-> "Name", id |-> id, ctx |-> ctx]

\* ops of visit_BinaryOp.
ops ==
    (<<"+">> :> [k |-> "Add"]) @@ (<<"-">> :> [k |-> "Sub"])
        @@ (<<"*">> :> [k |-> "Mult"]) @@ (<<"/">> :> [k |-> "Div"])

\* A lookup that falls back to addition for a key the dict lacks.
OpsLookupDefault(op) ==
    IF op \in DOMAIN ops THEN ops[op] ELSE [k |-> "Add"]

\* ops[n.op]: a key the dict lacks raises KeyError.
OpsLookup(op) ==
    IF op \in DOMAIN ops THEN ops[op] ELSE Raised("KeyError", op)

RECURSIVE visit(_)

\* [self.visit(s) for s in xs]
VisitAll(xs) == [i \in 1..Len(xs) |-> visit(xs[i])]

visit_Function(n) ==
    LET body == VisitAll(n.body)
    IN  IF AnyRaised(body) THEN FirstRaised(body)
        ELSE [k |-> "FunctionDef", name |-> n.name,
              args |-> [k |-> "arguments", posonlyargs |-> <<>>,
                        args |-> [i \in 1..Len(n.params) |->
                                     [k |-> "arg", arg |-> n.params[i]]],
                        kwonlyargs |-> <<>>, kw_defaults |-> <<>>,
                        defaults |-> <<>>],
              body |-> body, decorator_list |-> <<>>]

visit_Return(n) ==
    LET value == visit(n.value)
    IN  IF IsRaised(value) THEN value ELSE [k |-> "Return", value |-> value]

visit_Assign(n) ==
    LET value == visit(n.value)
    IN  IF IsRaised(value) THEN value
        ELSE [k |-> "Assign", targets |-> <<Name(n.name, "Store")>>,
              value |-> value]

\* An else-body that is never lowered.
OtherwiseDropped(n) == <<>>

\* n.otherwise is falsy when it is None and when it is the empty list.
OtherwiseStmts(n) ==
    IF n.otherwise # None /\ n.otherwise[1] # <<>> THEN n.otherwise[1] ELSE <<>>

visit_If(n) ==
    LET test == visit(n.cond)
        body == VisitAll(n.then)
        orelse == VisitAll(OtherwiseStmts(n))
    IN  IF IsRaised(test) THEN test
        ELSE IF AnyRaised(body) THEN FirstRaised(body)
        ELSE IF AnyRaised(orelse) THEN FirstRaised(orelse)
        ELSE [k |-> "If", test |-> test, body |-> body, orelse |-> orelse]

visit_For(n) ==
    LET test == visit(n.cond)
        body == VisitAll(n.body)
    IN  IF IsRaised(test) THEN test
        ELSE IF AnyRaised(body) THEN FirstRaised(body)
        ELSE [k |-> "While", test |-> test, body |-> body, orelse |-> <<>>]

visit_Call(n) ==
    LET args == VisitAll(n.args)
    IN  IF AnyRaised(args) THEN FirstRaised(args)
        ELSE [k |-> "Expr",
              value |-> [k |-> "Call", func |-> Name(n.name, "Load"),
                         args |-> args, keywords |-> <<>>]]

visit_BinaryOp(n) ==
    LET left == visit(n.left)
        op == OpsLookup(n.op)
        right == visit(n.right)
    IN  IF IsRaised(left) THEN left
        ELSE IF IsRaised(op) THEN op
        ELSE IF IsRaised(right) THEN right
        ELSE [k |-> "BinOp", left |-> left, op |-> op, right |-> right]

visit_Var(n) == Name(n.name, "Load")

visit_Num(n) == [k |-> "Constant", value |-> n.value]

\* getattr(self, "visit_" + n.__class__.__name__)(n)
visit(n) ==
    CASE n.k = "Function" -> visit_Function(n)
      [] n.k = "Return" -> visit_Return(n)
      [] n.k = "Assign" -> visit_Assign(n)
      [] n.k = "If" -> visit_If(n)
      [] n.k = "For" -> visit_For(n)
      [] n.k = "Call" -> visit_Call(n)
      [] n.k = "BinaryOp" -> visit_BinaryOp(n)
      [] n.k = "Var" -> visit_Var(n)
      [] n.k = "Num" -> visit_Num(n)
      [] OTHER -> Raised("AttributeError", <<>>)

(***************************************************************************)
(* The pipeline of __main__: tokenize, Parser(tokens).parse_func(), then   *)
(* ToPython().visit of the parse result.                                   *)
(***************************************************************************)
NoValue == [k |-> "None"]

Tokenize ==
    /\ phase = "lex"
    /\ tokens' = tokenize(src)
    /\ pos' = 0
    /\ stack' = <<NewFrame("parse_func")>>
    /\ phase' = "parse"
    /\ UNCHANGED <<src, err, result, py>>

Lower ==
    /\ phase = "parsed"
    /\ LET t == visit(result)
       IN  IF IsRaised(t)
           THEN /\ phase' = "error"
                /\ err' = [kind |-> t.kind, expected |-> "",
                            got |-> Token("", t.key)]
                /\ UNCHANGED py
           ELSE /\ phase' = "done"
                /\ py' = t
                /\ UNCHANGED err
    /\ UNCHANGED <<src, tokens, pos, stack, result>>

(***************************************************************************)
(* Inputs.  Source texts: go_code of __main__, the same program on one     *)
(* line, and every short text over a few characters.  Token lists: a       *)
(* function header followed by every short parameter section, expression   *)
(* or statement section over the token kinds that section can hold.        *)
(***************************************************************************)
go_code ==
    << "\n",
       " ", " ", " ", " ", "f", "u", "n", "c", " ", "a", "d", "d", "(", "a",
       " ", "i", "n", "t", ",", " ", "b", " ", "i", "n", "t", ")", " ", "i",
       "n", "t", " ", "{", "\n",
       " ", " ", " ", " ", " ", " ", " ", " ", "i", "f", " ", "a", " ", "{",
       "\n",
       " ", " ", " ", " ", " ", " ", " ", " ", " ", " ", " ", " ", "r", "e",
       "t", "u", "r", "n", " ", "a", " ", "+", " ", "b", "\n",
       " ", " ", " ", " ", " ", " ", " ", " ", "}", " ", "e", "l", "s", "e",
       " ", "{", "\n",
       " ", " ", " ", " ", " ", " ", " ", " ", " ", " ", " ", " ", "r", "e",
       "t", "u", "r", "n", " ", "b", "\n",
       " ", " ", " ", " ", " ", " ", " ", " ", "}", "\n",
       " ", " ", " ", " ", "}", "\n",
       " ", " ", " ", " " >>

OneLineExample ==
    << "f", "u", "n", "c", " ", "a", "d", "d", "(", "a", " ", "i", "n", "t",
       ",", " ", "b", " ", "i", "n", "t", ")", " ", "i", "n", "t", " ", "{",
       " ", "i", "f", " ", "a", " ", "{", " ", "r", "e", "t", "u", "r", "n",
       " ", "a", " ", "+", " ", "b", " ", "}", " ", "e", "l", "s", "e", " ",
       "{", " ", "r", "e", "t", "u", "r", "n", " ", "b", " ", "}", " ", "}" >>

SrcAlphabet == {"i", "f", "1", ":", "=", "@", " "}

\* The source texts handed to tokenize.
SrcInputs ==
    \/ src \in {go_code, OneLineExample}
    \/ \E n \in 0..MaxSrcLen : src \in [1..n -> SrcAlphabet]

\* The token of a keyword or punctuation kind, as tokenize yields it.
Sym(name) ==
    Token(name, TOKEN_SPEC[CHOOSE i \in 1..Len(TOKEN_SPEC) :
                              TOKEN_SPEC[i].name = name].lit)

Id(c) == Token("IDENT", <<c>>)

Number(c) == Token("NUMBER", <<c>>)

FuncOpen == <<Sym("FUNC"), Id("f"), Sym("LPAREN")>>

NoParams == FuncOpen \o <<Sym("RPAREN"), Sym("LBRACE")>>

\* What may follow the function's body: nothing (the text stops short), the
\* closing brace, or the closing brace and one more token.
Ends ==
    {<<>>, <<Sym("RBRACE")>>, <<Sym("RBRACE"), Sym("RBRACE")>>,
     <<Sym("RBRACE"), Sym("FUNC")>>}

ParamEnds ==
    {<<Sym("RPAREN"), Sym("LBRACE"), Sym("RBRACE")>>,
     <<Sym("RPAREN"), Sym("INT"), Sym("LBRACE"), Sym("RBRACE")>>}

ParamAlphabet == {Id("a"), Id("b"), Sym("INT"), Sym("COMMA")}

ParamInput(p, e) == FuncOpen \o p \o e

OpAlphabet ==
    {Number("1"), Sym("PLUS"), Sym("MINUS"), Sym("STAR"), Sym("SLASH"),
     Sym("COLON_EQ")}

OpInput(e) ==
    NoParams \o <<Sym("RETURN"), Id("a")>> \o e \o <<Sym("RBRACE")>>

CallAlphabet ==
    {Id("a"), Sym("LPAREN"), Sym("RPAREN"), Sym("COMMA"), Sym("PLUS")}

CallInput(e) ==
    NoParams \o <<Sym("RETURN"), Id("g"), Sym("LPAREN")>> \o e
        \o <<Sym("RBRACE")>>

StmtAlphabet ==
    {Sym("RETURN"), Sym("FOR"), Id("a"), Sym("EQ"), Sym("LBRACE"),
     Sym("RBRACE")}

StmtInput(s) == NoParams \o s \o <<Sym("RBRACE")>>

IfAlphabet ==
    {Sym("RETURN"), Id("a"), Sym("ELSE"), Sym("LBRACE"), Sym("RBRACE")}

IfInput(s, e) == NoParams \o <<Sym("IF"), Id("a"), Sym("LBRACE")>> \o s \o e

\* Parser(toks) for every token list of the input families: the header cut
\* at every length, and each section over its alphabet up to its bound.
ParseInputs ==
    \/ \E n \in 0..Len(NoParams) : ParserInit(SubSeq(NoParams, 1, n))
    \/ \E n \in 0..MaxParamToks :
          \E p \in [1..n -> ParamAlphabet], e \in ParamEnds :
             ParserInit(ParamInput(p, e))
    \/ \E n \in 0..MaxOpToks :
          \E e \in [1..n -> OpAlphabet] : ParserInit(OpInput(e))
    \/ \E n \in 0..MaxCallToks :
          \E e \in [1..n -> CallAlphabet] : ParserInit(CallInput(e))
    \/ \E n \in 0..MaxStmtToks :
          \E s \in [1..n -> StmtAlphabet] : ParserInit(StmtInput(s))
    \/ \E n \in 0..MaxIfToks :
          \E s \in [1..n -> IfAlphabet], e \in Ends : ParserInit(IfInput(s, e))

(***************************************************************************)
(* Spec: the whole pipeline from a source text.  SpecParse: the parser and *)
(* the lowering from a token list handed to Parser.                        *)
(***************************************************************************)
Init ==
    /\ SrcInputs
    /\ phase = "lex"
    /\ tokens = <<>>
    /\ pos = 0
    /\ stack = <<>>
    /\ err = NoErr
    /\ result = NoValue
    /\ py = NoValue

Next ==
    \/ Tokenize
    \/ StepFunc
    \/ StepBlock
    \/ StepStmt
    \/ StepExpr
    \/ StepTerm
    \/ Lower

Spec == Init /\ [][Next]_vars

InitParse ==
    /\ src = <<>>
    /\ phase = "parse"
    /\ ParseInputs
    /\ stack = <<NewFrame("parse_func")>>
    /\ err = NoErr
    /\ result = NoValue
    /\ py = NoValue

NextParse ==
    \/ StepFunc
    \/ StepBlock
    \/ StepStmt
    \/ StepExpr
    \/ StepTerm
    \/ Lower

SpecParse == InitParse /\ [][NextParse]_vars

\* The interpreter runs the parser's next step as long as there is one.
SpecParseLive == InitParse /\ [][NextParse]_vars /\ WF_vars(NextParse)

(***************************************************************************)
(* SpecLower: ToPython().visit of an expression built with the node        *)
(* constructors, whose BinaryOp accepts any operator text.  The inputs are *)
(* the operator chains over one variable nested up to MaxNest deep, bare   *)
(* and as the value of a Return.                                           *)
(***************************************************************************)
OpTexts == {<<"+">>, <<"-">>, <<"*">>, <<"/">>, <<"%">>, <<"*", "*">>}

RECURSIVE Chains(_)
Chains(d) ==
    IF d = 0 THEN {Var(<<"a">>)}
    ELSE LET C == Chains(d - 1)
         IN  C \cup {BinaryOp(c, o, Var(<<"a">>)) : c \in C, o \in OpTexts}
               \cup {BinaryOp(Var(<<"a">>), o, c) : c \in C, o \in OpTexts}

InitLower ==
    /\ src = <<>>
    /\ tokens = <<>>
    /\ pos = 0
    /\ stack = <<>>
    /\ phase = "parsed"
    /\ err = NoErr
    /\ \E e \in Chains(MaxNest) : result \in {e, Return(e)}
    /\ py = NoValue

NextLower == Lower

SpecLower == InitLower /\ [][NextLower]_vars

(***************************************************************************)
(* Properties.                                                             *)
(***************************************************************************)
Parsed == phase \in {"parsed", "done"}

\* The parser raised: no Function was returned.
ParseFailed == phase = "error" /\ result = NoValue

\* Python's ast: the statement classes and the expression classes.
StmtKinds == {"FunctionDef", "Return", "Assign", "If", "While", "Expr"}

ExprKinds == {"BinOp", "Call", "Name", "Constant"}

RECURSIVE WellFormedExpr(_)
WellFormedExpr(t) ==
    /\ t.k \in ExprKinds
    /\ CASE t.k = "BinOp" -> WellFormedExpr(t.left) /\ WellFormedExpr(t.right)
         [] t.k = "Call" ->
              /\ WellFormedExpr(t.func)
              /\ \A i \in 1..Len(t.args) : WellFormedExpr(t.args[i])
         [] OTHER -> TRUE

RECURSIVE WellFormedStmt(_)
WellFormedStmt(t) ==
    /\ t.k \in StmtKinds
    /\ CASE t.k = "FunctionDef" ->
              \A i \in 1..Len(t.body) : WellFormedStmt(t.body[i])
         [] t.k \in {"Return", "Assign", "Expr"} -> WellFormedExpr(t.value)
         [] t.k \in {"If", "While"} ->
              /\ WellFormedExpr(t.test)
              /\ \A i \in 1..Len(t.body) : WellFormedStmt(t.body[i])
              /\ \A i \in 1..Len(t.orelse) : WellFormedStmt(t.orelse[i])

\* C1: for every accepted program the lowering ends with a well-formed
\* target tree: each statement slot holds a statement and each expression
\* slot an expression, also where a Call is a return value, an argument or
\* an operand.
C1_WellFormedTarget ==
    /\ phase = "done" => WellFormedStmt(py)
    /\ ~(phase = "error" /\ result # NoValue)

\* C2: whenever parse_func returns no Function it has raised a SyntaxError
\* that names the token at the cursor, also when the token list ends early.
C2_ParseErrorNamesToken ==
    ParseFailed =>
        /\ err.kind = "SyntaxError"
        /\ pos < Len(tokens)
        /\ err.got = tokens[pos + 1]

\* Is there an index of s at which no token pattern matches.
HasUnmatched(s) == \E i \in 1..Len(s) : MatchAt(s, i).lastgroup = ""

\* C3: tokenize fails with a LexError when the scan meets a position at
\* which no pattern matches; it never passes over the character and goes on.
C3_LexErrorOnUnmatched ==
    (phase # "lex" /\ HasUnmatched(src)) =>
        (phase = "error" /\ err.kind = "LexError")

\* C4: when parse_func returns a Function the cursor is at the end of the
\* token list.
C4_ConsumesAllTokens == Parsed => pos = Len(tokens)

\* The index of the first RPAREN after the opening parenthesis (token 3),
\* 0 when there is none.
FirstRParen ==
    LET R == {i \in 4..Len(tokens) : tokens[i].type = "RPAREN"}
    IN  IF R = {} THEN 0 ELSE CHOOSE i \in R : \A j \in R : i <= j

ParamSection == SubSeq(tokens, 4, FirstRParen - 1)

\* The parameter grammar [IDENT [int] {, IDENT [int]}] as an automaton over
\* the token kinds: q is "none" (nothing yet), "name", "type" or "comma".
RECURSIVE ParamsFrom(_, _)
ParamsFrom(q, ts) ==
    IF ts = <<>> THEN q # "comma"
    ELSE LET t == Head(ts).type
         IN  CASE t = "IDENT" /\ q \in {"none", "comma"} ->
                     ParamsFrom("name", Tail(ts))
               [] t = "INT" /\ q = "name" -> ParamsFrom("type", Tail(ts))
               [] t = "COMMA" /\ q \in {"name", "type"} ->
                     ParamsFrom("comma", Tail(ts))
               [] OTHER -> FALSE

ValidParams(ts) == ParamsFrom("none", ts)

IsIdent(t) == t.type = "IDENT"

\* The identifiers of a token list, in order.
Names(ts) ==
    LET ids == SelectSeq(ts, IsIdent)
    IN  [i \in 1..Len(ids) |-> ids[i].value]

\* parse_func has left its parameter loop and eaten the ")".
ParamsAccepted ==
    \/ Parsed
    \/ /\ phase = "parse"
       /\ stack[1].pc \in {"result_type", "lbrace", "rbrace"}

\* The parameters parse_func holds once the loop is left.
ParamsHeld == IF Parsed THEN result.params ELSE stack[1].list

\* parse_func raised inside its parameter loop although a ")" follows.
ParamsRejected ==
    /\ ParseFailed
    /\ FirstRParen # 0
    /\ pos >= 3
    /\ pos < FirstRParen

\* C5: a parameter list is accepted exactly when it follows the grammar
\* IDENT [int] separated by single commas, and the accepted parameters are
\* the identifiers in source order.
C5_ParamListGrammar ==
    /\ ParamsAccepted => (ValidParams(ParamSection)
                            /\ ParamsHeld = Names(ParamSection))
    /\ ParamsRejected => ~ValidParams(ParamSection)

\* The target operator each source operator text stands for.
OpImage(o) ==
    CASE o = <<"+">> -> "Add" [] o = <<"-">> -> "Sub"
      [] o = <<"*">> -> "Mult" [] o = <<"/">> -> "Div"
      [] OTHER -> "none"

\* Does the tree n hold a BinaryOp whose operator is outside + - * /.
RECURSIVE HasUnknownOp(_)
HasUnknownOp(n) ==
    CASE n.k = "BinaryOp" ->
            \/ OpImage(n.op) = "none"
            \/ HasUnknownOp(n.left)
            \/ HasUnknownOp(n.right)
      [] n.k = "Return" -> HasUnknownOp(n.value)
      [] OTHER -> FALSE

\* The target tree t carries, node for node, the operators of n.
RECURSIVE SameOps(_, _)
SameOps(n, t) ==
    CASE n.k = "BinaryOp" ->
            /\ t.k = "BinOp"
            /\ t.op.k = OpImage(n.op)
            /\ SameOps(n.left, t.left)
            /\ SameOps(n.right, t.right)
      [] n.k = "Return" -> t.k = "Return" /\ SameOps(n.value, t.value)
      [] OTHER -> t.k = "Name"

ExampleAst ==
    Function(<<"a", "d", "d">>, << <<"a">>, <<"b">> >>,
             << If(Var(<<"a">>),
                   << Return(BinaryOp(Var(<<"a">>), <<"+">>, Var(<<"b">>))) >>,
                   Some(<< Return(Var(<<"b">>)) >>)) >>)

\* C7: the example source parses to Function add(a, b) with the single If
\* of the specification, and lowers to a target function add(a, b) whose
\* body is one conditional with test a, then-body [return a + b] and
\* else-body [return b].
C7_ExampleProgram ==
    src \in {go_code, OneLineExample} =>
        /\ phase # "error"
        /\ Parsed => result = ExampleAst
        /\ phase = "done" =>
              /\ py.k = "FunctionDef"
              /\ py.name = <<"a", "d", "d">>
              /\ py.args.args = << [k |-> "arg", arg |-> <<"a">>],
                                   [k |-> "arg", arg |-> <<"b">>] >>
              /\ py.body =
                    << [k |-> "If",
                        test |-> Name(<<"a">>, "Load"),
                        body |-> << [k |-> "Return",
                                     value |-> [k |-> "BinOp",
                                                left |-> Name(<<"a">>, "Load"),
                                                op |-> [k |-> "Add"],
                                                right |-> Name(<<"b">>, "Load")]] >>,
                        orelse |-> << [k |-> "Return",
                                       value |-> Name(<<"b">>, "Load")] >>] >>

C7_Witness == src = go_code /\ phase = "done"

\* The indices of a text at which ":=" stands, and those of every other "=".
ColonEqAt(s) == {i \in 1..(Len(s) - 1) : s[i] = ":" /\ s[i + 1] = "="}

PlainEqAt(s) == {i \in 1..Len(s) : s[i] = "=" /\ (i - 1) \notin ColonEqAt(s)}

\* The kinds tokenize must yield for the "=" and ":=" of a text, in order:
\* ":" followed by "=" is one COLON_EQ, any other "=" is an EQ.
AssignKinds(s) ==
    LET P == ColonEqAt(s) \cup PlainEqAt(s)
        At(j) == CHOOSE i \in P : Cardinality({x \in P : x < i}) = j - 1
    IN  [j \in 1..Cardinality(P) |->
            IF At(j) \in ColonEqAt(s) THEN "COLON_EQ" ELSE "EQ"]

IsAssignKind(t) == t.type \in {"EQ", "COLON_EQ"}

\* C8: every ":=" of the source is exactly one COLON_EQ token with text
\* ":=", never an EQ for its "=".
C8_ColonEqOneToken ==
    phase # "lex" =>
        LET got == SelectSeq(tokens, IsAssignKind)
        IN  /\ [i \in 1..Len(got) |-> got[i].type] = AssignKinds(src)
            /\ \A i \in 1..Len(got) :
                  got[i].type = "COLON_EQ" => got[i].value = <<":", "=">>

C8_Witness ==
    /\ src = <<"i", ":", "=", "1">>
    /\ tokens = <<Id("i"), Sym("COLON_EQ"), Number("1")>>

\* The top call stands at the test of its loop condition.
AtLoopTest ==
    /\ phase = "parse"
    /\ \/ Top.fn = "parse_func" /\ Top.pc = "params"
       \/ Top.fn = "parse_block"
       \/ Top.fn = "parse_term" /\ Top.pc = "arg"
       \/ Top.fn = "parse_expr" /\ Top.pc \in {"first", "right"}

\* Since the last test of the same loop the cursor has advanced.
LoopProgress == AtLoopTest => Top.lpos < pos

\* The places of the parse_* methods whose next step is an unconditional
\* eat: the step either raises or eats one token.
EatSteps ==
    {<<"parse_func", "start">>, <<"parse_func", "name">>,
     <<"parse_func", "lparen">>, <<"parse_func", "params">>,
     <<"parse_func", "lbrace">>, <<"parse_func", "rbrace">>,
     <<"parse_stmt", "start">>, <<"parse_stmt", "if_cond">>,
     <<"parse_stmt", "if_then">>, <<"parse_stmt", "else_lbrace">>,
     <<"parse_stmt", "else_rbrace">>, <<"parse_stmt", "for_cond">>,
     <<"parse_stmt", "for_body">>, <<"parse_stmt", "assign_eq">>,
     <<"parse_term", "start">>}

AtEatStep == phase = "parse" /\ <<Top.fn, Top.pc>> \in EatSteps

\* C9: parse_func terminates on every token list; the cursor never goes
\* back, a successful eat moves it by exactly one token and nothing else
\* moves it, and every iteration of the parameter, statement, argument and
\* operator loops advances it before the loop condition is tested again.
C9_ParserTerminates ==
    /\ [][/\ pos' \in {pos, pos + 1}
          /\ (AtEatStep /\ phase' # "error") => pos' = pos + 1
          /\ phase # "parse" => pos' = pos
          /\ LoopProgress']_vars
    /\ <>(phase # "parse")

C9_Witness ==
    /\ phase = "parse"
    /\ Top.fn = "parse_expr"
    /\ Top.pc = "right"
    /\ Top.lpos > 0
    /\ \E i \in 1..Len(stack) :
          stack[i].fn = "parse_term" /\ stack[i].lpos > 0

\* Every BinaryOp of the tree n is a + or a - whose right operand is no
\* BinaryOp.
RECURSIVE LeftNested(_)
LeftNested(n) ==
    CASE n.k = "BinaryOp" ->
            /\ n.op \in {<<"+">>, <<"-">>}
            /\ n.right.k # "BinaryOp"
            /\ LeftNested(n.left)
            /\ LeftNested(n.right)
      [] n.k = "Function" -> \A i \in 1..Len(n.body) : LeftNested(n.body[i])
      [] n.k \in {"Return", "Assign"} -> LeftNested(n.value)
      [] n.k = "If" ->
            /\ LeftNested(n.cond)
            /\ \A i \in 1..Len(n.then) : LeftNested(n.then[i])
            /\ n.otherwise # None =>
                  \A i \in 1..Len(n.otherwise[1]) : LeftNested(n.otherwise[1][i])
      [] n.k = "For" ->
            /\ LeftNested(n.cond)
            /\ \A i \in 1..Len(n.body) : LeftNested(n.body[i])
      [] n.k = "Call" -> \A i \in 1..Len(n.args) : LeftNested(n.args[i])
      [] OTHER -> TRUE

SubtractTwice ==
    OpInput(<<Sym("MINUS"), Number("1"), Sym("MINUS"), Number("1")>>)

\* C10: the parser eats no STAR, SLASH or COLON_EQ token; every BinaryOp of
\* a returned AST is a left-nested + or - (a - 1 - 1 is (a - 1) - 1); and
\* lowering a returned AST never meets an unknown operator.
C10_OnlyLeftNestedPlusMinus ==
    /\ \A i \in 1..pos : tokens[i].type \notin {"STAR", "SLASH", "COLON_EQ"}
    /\ Parsed => LeftNested(result)
    /\ (Parsed /\ tokens = SubtractTwice) =>
          result.body =
             << Return(BinaryOp(BinaryOp(Var(<<"a">>), <<"-">>, Num(1)),
                                <<"-">>, Num(1))) >>
    /\ ~(phase = "error" /\ result # NoValue)

C10_Witness == phase = "done" /\ tokens = SubtractTwice

=============================================================================
